---- MODULE Spec2Model ----
(***************************************************************************)
(* Model of scripts/notions_search.py: fuzzy pattern search against a      *)
(* precomputed embeddings file.                                            *)
(*                                                                         *)
(* JSON values are tagged records (TLC compares only values of one shape). *)
(* A Python float is a fixed-point integer: the float f is the integer     *)
(* f * Scale.  The vectors the model draws have a Euclidean norm that      *)
(* divides Scale, so every quotient and product below is exact and the     *)
(* order and the ties of the scores are those of the IEEE doubles.         *)
(***************************************************************************)
EXTENDS Integers, Sequences, FiniteSets, TLC

VARIABLES pc, libAvailable, payload, top, query_vec, entries, ranked, idx,
          out, status, err, steps

vars == <<pc, libAvailable, payload, top, query_vec, entries, ranked, idx,
          out, status, err, steps>>

\* ---------------------------------------------------------------- bounds
MaxEntries == 3      \* candidates handed to _rank
MaxRecords == 2      \* elements of the embeddings file of a whole run
MaxTop == 2          \* --top ranges over -MaxTop .. MaxTop

\* ------------------------------------------------------------ arithmetic
Scale == 2 * 5

Min(a, b) == IF a <= b THEN a ELSE b
Max(a, b) == IF a >= b THEN a ELSE b

RECURSIVE SumSeq(_)
SumSeq(s) == IF s = <<>> THEN 0 ELSE Head(s) + SumSeq(Tail(s))

Float(x) == x * Scale
FMul(a, b) == (a * b) \div Scale
FDiv(a, b) == (a * Scale) \div b
RECURSIVE ISqrt(_, _, _)
ISqrt(n, lo, hi) ==
    IF lo >= hi THEN lo
    ELSE LET mid == (lo + hi + 1) \div 2 IN
         IF mid * mid <= n THEN ISqrt(n, mid, hi) ELSE ISqrt(n, lo, mid - 1)
FSqrt(a) == ISqrt(a * Scale, 0, a + Scale)

\* ------------------------------------------------------------ JSON values
Num(n) == [num |-> TRUE, n |-> n]
NonNum == [num |-> FALSE, n |-> 0]            \* null: float(None) raises TypeError

Absent == [has |-> FALSE, val |-> ""]
Str(s) == [has |-> TRUE, val |-> s]

NoVector == [kind |-> "absent", elems |-> <<>>]
NonList == [kind |-> "other", elems |-> <<>>]   \* a number, a string, null
List(s) == [kind |-> "list", elems |-> s]
Vec(s) == List([i \in 1..Len(s) |-> Num(s[i])])

Obj(id, title, vector) == [isdict |-> TRUE, id |-> id, title |-> title, vector |-> vector]
NonObj == [isdict |-> FALSE, id |-> Absent, title |-> Absent, vector |-> NoVector]

IsNumeric(vec) == \A i \in 1..Len(vec) : vec[i].num

\* isinstance(vec, list), and a variant that only tests for a missing field
IsListOrPresent(vector) == vector.kind # "absent"
IsList(vector) == vector.kind = "list"

\* ------------------------------------------------------------ _normalize
\* variant without the zero-norm guard: v / 0.0 raises ZeroDivisionError
_normalizeUnguarded(vec) ==
    IF ~IsNumeric(vec) THEN [err |-> "TypeError", vals |-> <<>>]
    ELSE LET values == [i \in 1..Len(vec) |-> Float(vec[i].n)]
             norm == FSqrt(SumSeq([i \in 1..Len(vec) |-> FMul(values[i], values[i])]))
         IN  IF norm = 0 /\ Len(vec) > 0 THEN [err |-> "ZeroDivisionError", vals |-> <<>>]
             ELSE [err |-> "none", vals |-> [i \in 1..Len(vec) |-> FDiv(values[i], norm)]]

_normalize(vec) ==
    IF ~IsNumeric(vec) THEN [err |-> "TypeError", vals |-> <<>>]
    ELSE LET values == [i \in 1..Len(vec) |-> Float(vec[i].n)]
             norm == FSqrt(SumSeq([i \in 1..Len(vec) |-> FMul(values[i], values[i])]))
         IN  IF norm = 0 THEN [err |-> "none", vals |-> values]
             ELSE [err |-> "none", vals |-> [i \in 1..Len(vec) |-> FDiv(values[i], norm)]]

\* ------------------------------------------------------------------ _dot
_dot(a, b) == SumSeq([i \in 1..Min(Len(a), Len(b)) |-> FMul(a[i], b[i])])

\* ---------------------------------------------------------------- _rank
Item(score, ref, entry) == [score |-> score, ref |-> ref, entry |-> entry]

RECURSIVE ScoreLoop(_, _, _, _)
ScoreLoop(q, es, i, scored) ==
    IF i > Len(es) THEN [err |-> "none", scored |-> scored]
    ELSE LET entry == es[i] IN
         IF ~entry.isdict THEN [err |-> "AttributeError", scored |-> scored]
         ELSE IF ~IsList(entry.vector) THEN ScoreLoop(q, es, i + 1, scored)
         ELSE LET n == _normalize(entry.vector.elems) IN
              IF n.err # "none" THEN [err |-> n.err, scored |-> scored]
              ELSE ScoreLoop(q, es, i + 1,
                             Append(scored, Item(_dot(q, n.vals), i, entry)))

\* scored.sort(key=lambda x: x[0], reverse=True): a stable sort on the score
\* only; with reverse=True entries of equal score keep their input order.
RECURSIVE InsertDesc(_, _)
InsertDesc(x, s) ==
    IF s = <<>> THEN <<x>>
    ELSE IF Head(s).score >= x.score THEN <<Head(s)>> \o InsertDesc(x, Tail(s))
    ELSE <<x>> \o s

RECURSIVE FoldInsertDesc(_, _)
FoldInsertDesc(s, acc) ==
    IF s = <<>> THEN acc ELSE FoldInsertDesc(Tail(s), InsertDesc(Head(s), acc))

\* variants of the sort: ascending, and ascending then reversed
RECURSIVE InsertAsc(_, _)
InsertAsc(x, s) ==
    IF s = <<>> THEN <<x>>
    ELSE IF Head(s).score <= x.score THEN <<Head(s)>> \o InsertAsc(x, Tail(s))
    ELSE <<x>> \o s

RECURSIVE FoldInsertAsc(_, _)
FoldInsertAsc(s, acc) ==
    IF s = <<>> THEN acc ELSE FoldInsertAsc(Tail(s), InsertAsc(Head(s), acc))

SortAsc(s) == FoldInsertAsc(s, <<>>)
SortAscReversed(s) == LET a == FoldInsertAsc(s, <<>>) IN [i \in 1..Len(a) |-> a[Len(a) + 1 - i]]

SortDesc(s) == FoldInsertDesc(s, <<>>)

\* variant of the slice that keeps one entry too many
SliceOffByOne(s, n) ==
    IF n >= 0 THEN SubSeq(s, 1, Min(n + 1, Len(s)))
    ELSE SubSeq(s, 1, Max(0, Len(s) + n))

\* scored[:top], with Python's meaning of a negative bound
Slice(s, n) ==
    IF n >= 0 THEN SubSeq(s, 1, Min(n, Len(s)))
    ELSE SubSeq(s, 1, Max(0, Len(s) + n))

_rank(q, es, n) ==
    LET sc == ScoreLoop(q, es, 1, <<>>) IN
    IF sc.err # "none" THEN [err |-> sc.err, res |-> <<>>]
    ELSE [err |-> "none", res |-> Slice(SortDesc(sc.scored), n)]

\* ------------------------------------------------------ _load_embeddings
Number == [kind |-> "number", pairs |-> <<>>, elems |-> <<>>]
Mapping(pairs) == [kind |-> "dict", pairs |-> pairs, elems |-> <<>>]
Array(elems) == [kind |-> "list", pairs |-> <<>>, elems |-> elems]

_load_embeddings(p) ==
    IF p.kind = "dict"
    THEN [err |-> "none",
          out |-> [i \in 1..Len(p.pairs) |-> Obj(Str(p.pairs[i].pid), Absent, p.pairs[i].vec)]]
    ELSE IF p.kind = "list" THEN [err |-> "none", out |-> p.elems]
    ELSE [err |-> "Unsupported embeddings format", out |-> <<>>]

\* ------------------------------------------------------------- main: print
FormatLine(i, item) ==
    LET pid == IF item.entry.id.has THEN item.entry.id.val ELSE "unknown"
        title == IF item.entry.title.has THEN item.entry.title.val ELSE ""
    IN  [idx |-> i, pid |-> pid, score4 |-> (item.score * 10000) \div Scale,
         title |-> title, dash |-> title # ""]

\* ------------------------------------------------------------ input sets
Tops == (0 - MaxTop)..MaxTop

QueryVecs == {<<Float(1), Float(0)>>, <<Float(0), Float(1)>>, <<Float(1)>>}

\* Candidate records handed to _rank: the scenario vectors of the ranker,
\* a 3-4-5 vector, a zero and an empty vector, a vector of another
\* dimensionality, the two malformed vector fields, and a vector with a
\* non-numeric element.
RankPool ==
    { Obj(Str("a"), Str("Alpha"), Vec(<<1, 0>>)),
      Obj(Str("b"), Absent, Vec(<<0, 1>>)),
      Obj(Str("c"), Absent, Vec(<<0 - 1, 0>>)),
      Obj(Str("d"), Absent, Vec(<<3, 4>>)),
      Obj(Str("z"), Absent, Vec(<<0, 0>>)),
      Obj(Str("e"), Absent, Vec(<<>>)),
      Obj(Str("a"), Absent, Vec(<<2>>)),
      Obj(Str("m"), Str("Missing"), NoVector),
      Obj(Str("n"), Absent, NonList),
      Obj(Str("x"), Absent, List(<<Num(1), NonNum>>)) }

\* Elements of a sequence-form embeddings file of a whole run.
ElemPool ==
    { Obj(Str("a"), Str("Alpha"), Vec(<<1, 0>>)),
      Obj(Str("b"), Absent, Vec(<<0, 1>>)),
      Obj(Absent, Str(""), Vec(<<3, 4>>)),
      Obj(Str("m"), Absent, NoVector),
      Obj(Str("x"), Absent, List(<<Num(1), NonNum>>)),
      NonObj }

\* Values of a mapping-form embeddings file.
MapVecs == {Vec(<<1, 0>>), Vec(<<0, 1>>), NonList, List(<<NonNum>>)}
Pids == <<"p1", "p2">>

SeqsUpTo(S, n) == UNION {[1..k -> S] : k \in 0..n}

Payloads ==
    {Number}
    \cup {Array(s) : s \in SeqsUpTo(ElemPool, MaxRecords)}
    \cup {Mapping([i \in 1..Len(vs) |-> [pid |-> Pids[i], vec |-> vs[i]]]) :
            vs \in SeqsUpTo(MapVecs, Len(Pids))}

\* ------------------------------------------------------------------ main
TypeOK ==
    /\ pc \in {"import", "encode", "load", "rank", "print", "done", "fatal", "crashed"}
    /\ libAvailable \in BOOLEAN
    /\ top \in Tops
    /\ idx \in 1..(MaxEntries + 2)
    /\ status \in {0 - 1, 0, 1}

\* State at entry of main, after argparse; status -1: still running.
Init ==
    /\ pc = "import"
    /\ libAvailable \in BOOLEAN
    /\ payload \in Payloads
    /\ top \in Tops
    /\ query_vec = <<>>
    /\ entries = <<>>
    /\ ranked = <<>>
    /\ idx = 1
    /\ out = <<>>
    /\ status = 0 - 1
    /\ err = "none"
    /\ steps = <<>>

\* State at the call of _rank (line 68), for any query, candidates and top.
InitRank ==
    /\ pc = "rank"
    /\ libAvailable = TRUE
    /\ entries \in SeqsUpTo(RankPool, MaxEntries)
    /\ payload = Array(entries)
    /\ top \in Tops
    /\ query_vec \in QueryVecs
    /\ ranked = <<>>
    /\ idx = 1
    /\ out = <<>>
    /\ status = 0 - 1
    /\ err = "none"
    /\ steps = <<"import", "encode", "load">>

\* variant that swallows the ImportError and goes on
ImportLibSwallowed == pc' = "encode" /\ UNCHANGED <<status, err>>

ImportLibOk ==
    IF libAvailable
    THEN pc' = "encode" /\ UNCHANGED <<status, err>>
    ELSE pc' = "fatal" /\ status' = 1
         /\ err' = "sentence-transformers is required for MiniLM search"

ImportLib ==
    /\ pc = "import"
    /\ ImportLibOk
    /\ steps' = Append(steps, "import")
    /\ UNCHANGED <<libAvailable, payload, top, query_vec, entries, ranked, idx, out>>

Encode ==
    /\ pc = "encode"
    /\ \E q \in QueryVecs : query_vec' = q
    /\ pc' = "load"
    /\ steps' = Append(steps, "encode")
    /\ UNCHANGED <<libAvailable, payload, top, entries, ranked, idx, out, status, err>>

LoadEmbeddings ==
    /\ pc = "load"
    /\ LET r == _load_embeddings(payload) IN
       IF r.err = "none"
       THEN entries' = r.out /\ pc' = "rank" /\ UNCHANGED <<status, err>>
       ELSE pc' = "fatal" /\ status' = 1 /\ err' = r.err /\ UNCHANGED entries
    /\ steps' = Append(steps, "load")
    /\ UNCHANGED <<libAvailable, payload, top, query_vec, ranked, idx, out>>

CallRank ==
    /\ pc = "rank"
    /\ LET r == _rank(query_vec, entries, top) IN
       IF r.err = "none"
       THEN ranked' = r.res /\ pc' = "print" /\ UNCHANGED <<status, err>>
       ELSE pc' = "crashed" /\ status' = 1 /\ err' = r.err /\ UNCHANGED ranked
    /\ steps' = Append(steps, "rank")
    /\ UNCHANGED <<libAvailable, payload, top, query_vec, entries, idx, out>>

PrintLine ==
    /\ pc = "print"
    /\ idx <= Len(ranked)
    /\ out' = Append(out, FormatLine(idx, ranked[idx]))
    /\ idx' = idx + 1
    /\ steps' = Append(steps, "emit")
    /\ UNCHANGED <<pc, libAvailable, payload, top, query_vec, entries, ranked, status, err>>

Finish ==
    /\ pc = "print"
    /\ idx > Len(ranked)
    /\ pc' = "done"
    /\ status' = 0
    /\ UNCHANGED <<libAvailable, payload, top, query_vec, entries, ranked, idx, out, err, steps>>

Next == ImportLib \/ Encode \/ LoadEmbeddings \/ CallRank \/ PrintLine \/ Finish

Spec == Init /\ [][Next]_vars

NextRank == CallRank

SpecRank == InitRank /\ [][NextRank]_vars

\* =================================================================== claims
RankReturned == pc \in {"print", "done"}
Scored == ScoreLoop(query_vec, entries, 1, <<>>).scored
Sorted == SortDesc(Scored)
ValidVector(entry) == entry.isdict /\ entry.vector.kind = "list"
ValidCount == Cardinality({i \in 1..Len(entries) : ValidVector(entries[i])})
RankedRefs == {ranked[i].ref : i \in 1..Len(ranked)}
LeftOut == LET sc == Scored
               refs == RankedRefs
           IN  {sc[i] : i \in {k \in 1..Len(sc) : sc[k].ref \notin refs}}
Pairs(s) == [i \in 1..Len(s) |-> <<s[i].score, s[i].entry>>]
AllZero(vec) == \A i \in 1..Len(vec) : vec[i].num /\ vec[i].n = 0

\* C1 (as stated): _rank with top <= 0 returns an empty sequence, and with
\* top > 0 the first top entries of the score-sorted list (fewer if fewer
\* candidates scored).
C1_TopRule ==
    RankReturned =>
        IF top <= 0 THEN ranked = <<>>
        ELSE LET s == Sorted IN ranked = SubSeq(s, 1, Min(top, Len(s)))

\* C2 (as stated): the length of _rank's output is at most
\* min(top, number of candidates with a valid vector field), for every
\* integer top, and an empty candidate sequence gives an empty output.
C2_LengthAtMostMin ==
    RankReturned =>
        /\ Len(ranked) <= Min(top, ValidCount)
        /\ (entries = <<>> => ranked = <<>>)

\* C2 (amended): the output is never longer than the number of candidates
\* with a valid vector field; for top >= 0 it is at most min(top, that
\* number); an empty candidate sequence gives an empty output for every top.
C2_LengthBound ==
    RankReturned =>
        /\ Len(ranked) <= ValidCount
        /\ (top >= 0 => Len(ranked) <= Min(top, ValidCount))
        /\ (entries = <<>> => ranked = <<>>)

C2_Witness ==
    /\ pc = "print"
    /\ top > 0
    /\ ValidCount > top
    /\ Len(ranked) = top
    /\ Len(entries) > ValidCount

\* C3: the output of _rank is sorted by non-increasing score, and every
\* scored candidate left out of it scores no more than every returned one.
C3_SortedByScore ==
    RankReturned =>
        /\ \A i \in 1..(Len(ranked) - 1) : ranked[i].score >= ranked[i + 1].score
        /\ LET rest == LeftOut IN
           \A x \in rest : \A i \in 1..Len(ranked) : x.score <= ranked[i].score

C3_Witness ==
    /\ pc = "print"
    /\ Len(ranked) = 2
    /\ ranked[1].score > ranked[2].score
    /\ ranked[1].ref > ranked[2].ref
    /\ \E x \in LeftOut : x.score < ranked[2].score /\ x.ref < ranked[1].ref

\* C4: a candidate whose vector field is absent or not a list never appears
\* in the output of _rank and raises nothing, and the output is the one
\* _rank gives for the input without such candidates.
C4_MalformedExcluded ==
    /\ (pc = "crashed" => \E i \in 1..Len(entries) : ~IsNumeric(entries[i].vector.elems))
    /\ RankReturned =>
        /\ \A i \in 1..Len(ranked) : ValidVector(ranked[i].entry)
        /\ Pairs(ranked) = Pairs(_rank(query_vec, SelectSeq(entries, ValidVector), top).res)

C4_Witness ==
    /\ pc = "print"
    /\ Len(entries) = 3
    /\ entries[1].vector.kind = "absent"
    /\ entries[2].vector.kind = "other"
    /\ ValidVector(entries[3])
    /\ Len(ranked) = 1
    /\ ranked[1].ref = 3

\* C5 (as stated): a candidate whose vector has another length than the
\* query vector is skipped: it is not in the output, and nothing is raised.
C5_DimensionMismatchSkipped ==
    /\ (pc = "crashed" => \E i \in 1..Len(entries) : ~IsNumeric(entries[i].vector.elems))
    /\ RankReturned =>
        \A i \in 1..Len(ranked) : Len(ranked[i].entry.vector.elems) = Len(query_vec)

\* C9: _normalize returns as many values as it is given; with a norm of
\* exactly zero (all elements zero, or no element) it returns the values
\* unchanged; a candidate with an all-zero vector is scored 0 by _rank and
\* raises nothing.
C9_ZeroNormPassThrough ==
    /\ \A i \in 1..Len(entries) :
         (ValidVector(entries[i]) /\ IsNumeric(entries[i].vector.elems)) =>
            LET vec == entries[i].vector.elems
                n == _normalize(vec)
            IN  /\ n.err = "none"
                /\ Len(n.vals) = Len(vec)
                /\ (AllZero(vec) => n.vals = [j \in 1..Len(vec) |-> Float(vec[j].n)])
    /\ (pc = "crashed" => \E i \in 1..Len(entries) : ~IsNumeric(entries[i].vector.elems))
    /\ RankReturned =>
         \A i \in 1..Len(ranked) :
            AllZero(ranked[i].entry.vector.elems) => ranked[i].score = 0

C9_Witness ==
    /\ pc = "print"
    /\ \E i, j \in 1..Len(ranked) :
         /\ ranked[i].entry.vector.elems = <<Num(0), Num(0)>>
         /\ ranked[i].score = 0
         /\ ranked[j].entry.vector.elems = <<>>
         /\ ranked[j].score = 0

\* C10: _rank breaks ties by input order: of two scored candidates with
\* equal scores the one earlier in the input is earlier in the output, and
\* when top cuts between them the earlier one is the one returned.
C10_TiesKeepInputOrder ==
    RankReturned =>
        /\ \A i, j \in 1..Len(ranked) :
             (i < j /\ ranked[i].score = ranked[j].score) => ranked[i].ref < ranked[j].ref
        /\ LET rest == LeftOut IN
           \A x \in rest : \A i \in 1..Len(ranked) :
              x.score = ranked[i].score => ranked[i].ref < x.ref

C10_Witness ==
    /\ pc = "print"
    /\ Len(ranked) = 2
    /\ ranked[1].score = ranked[2].score
    /\ ranked[1].entry.id = ranked[2].entry.id
    /\ ranked[1].entry # ranked[2].entry
    /\ \E x \in LeftOut : x.score = ranked[2].score

LibMessage == "sentence-transformers is required for MiniLM search"
FormatMessage == "Unsupported embeddings format"
Terminated == pc \in {"done", "fatal", "crashed"}
Supported == payload.kind \in {"dict", "list"}

\* C6 (as stated): apart from the two fatal classes no irregularity of a
\* candidate record surfaces as an error: a run whose library is available
\* and whose file is a mapping or a sequence never raises, and ends normally
\* with one line per scored record within top.
C6_RecordsNeverRaise ==
    /\ err \in {"none", LibMessage, FormatMessage}
    /\ (pc = "done" => Len(out) = Len(ranked))

\* C7 (as stated): with a top-level JSON value that is neither a mapping nor
\* a sequence the run ends fatally, with a non-zero status and a message,
\* and no result line is ever printed; with a mapping or a sequence and the
\* library available the run prints the results and exits zero.
C7_ExitBehaviour ==
    /\ ~Supported =>
         /\ out = <<>>
         /\ pc \notin {"done", "crashed", "print"}
         /\ (Terminated => pc = "fatal" /\ status # 0 /\ err # "none")
    /\ (Supported /\ libAvailable /\ Terminated) =>
         /\ pc = "done"
         /\ status = 0
         /\ Len(out) = Len(ranked)

\* Position of a step in the order the specification gives.
SpecOrder(step) ==
    CASE step = "load" -> 1
      [] step \in {"import", "encode"} -> 2
      [] step = "rank" -> 3
      [] OTHER -> 4

\* C8 (as stated): the steps of a run are: load the records, obtain the
\* query vector from the embedding provider, run the ranker, emit; a run
\* with an unsupported file and a missing library fails with the storage
\* error.
C8_StorageFirst ==
    /\ \A i, j \in 1..Len(steps) : i < j => SpecOrder(steps[i]) <= SpecOrder(steps[j])
    /\ (pc = "fatal" /\ ~libAvailable /\ ~Supported) => err = FormatMessage

\* The order of the statements of main.
CodeOrder == <<"import", "encode", "load", "rank", "emit">>

\* C8 (amended): the steps of a run are: load the embedding library, obtain
\* the query vector, load the records, run the ranker, emit; the library is
\* loaded before the storage is read, so a run with a missing library does
\* nothing else and fails with the missing-library error whatever the file.
C8_ProviderFirst ==
    /\ \A i \in 1..Len(steps) : steps[i] = CodeOrder[Min(i, Len(CodeOrder))]
    /\ ~libAvailable =>
         /\ Len(steps) <= 1
         /\ pc \in {"import", "fatal"}
         /\ (pc = "fatal" => err = LibMessage /\ status = 1)
    /\ (pc = "fatal" /\ err = FormatMessage) => (libAvailable /\ steps = SubSeq(CodeOrder, 1, 3))

C8_Witness ==
    /\ pc = "fatal"
    /\ ~libAvailable
    /\ ~Supported
    /\ err = LibMessage
    /\ steps = <<"import">>
====
